---- MODULE Spec2Model ----
(***************************************************************************)
(* ChatAgent (src/src/agenticai/singleagent.py): the agent's chat history, *)
(* planner configuration, default kernel arguments, skill loading and the  *)
(* run coroutine, as a state machine.                                      *)
(*                                                                         *)
(* Python values: an Optional[T] is a sequence of length at most one       *)
(* (None is <<>>, a value v is <<v>>); a dict is a function whose domain   *)
(* is its key set; argument values are written as strings.                 *)
(***************************************************************************)
EXTENDS Integers, Sequences, FiniteSets, TLC

VARIABLES
    pc,                         \* "new" | "failed" | "idle" | "awaiting"
    chat_history,               \* self.chat_history: sequence of messages
    planner_config,             \* self.planner_config
    planner_behavior,           \* self.planner_behavior
    default_kernel_arguments,   \* self._default_kernel_arguments
    default_kernel_settings,    \* self._default_kernel_settings
    chat_completion,            \* self.chat_completion
    azure_settings,             \* self.AZURE_OPENAI_KEY, ..._API_ENDPOINT,
                                \* ..._API_VERSION, ..._DEPLOYMENT_ID
    kernel_plugins,             \* the kernel.add_plugin calls made, in order
    activated,                  \* the skills the skills manager holds active
    last,                       \* the most recent public call and its outcome
    added,                      \* the add_*_message calls made on the current
                                \* ChatHistory object, in call order
    in_flight                   \* the ChatHistory object the suspended call of
                                \* get_chat_message_contents holds, as it reads
                                \* now, and whether it still is self.chat_history

vars == <<pc, chat_history, planner_config, planner_behavior,
          default_kernel_arguments, default_kernel_settings, chat_completion,
          azure_settings, kernel_plugins, activated, last, added, in_flight>>

----------------------------------------------------------------------------
(* Bounds *)

MaxHist == 3
MaxPlugins == 2

----------------------------------------------------------------------------
(* Python values *)

None == <<>>
Some(v) == <<v>>

\* bool(x) of an Optional[str]: None and "" are falsy
Truthy(o) == o # None /\ o[1] # ""

EmptyDict == [k \in {} |-> None]

\* d.copy(); d.update(u)
DictUpdate(d, u) ==
    [k \in (DOMAIN d) \cup (DOMAIN u) |-> IF k \in DOMAIN u THEN u[k] ELSE d[k]]

\* d[key] = v
DictSetItem(d, key, v) ==
    [k \in (DOMAIN d) \cup {key} |-> IF k = key THEN v ELSE d[k]]

IsPrefix(s, t) == Len(s) <= Len(t) /\ SubSeq(t, 1, Len(s)) = s

----------------------------------------------------------------------------
(* ChatHistory *)

Message(role, content) == [role |-> role, content |-> content]

ChatHistory == <<>>

\* ChatHistory.add_system_message as the agent uses it
add_system_message(h, message) == Append(h, Message("system", message))

\* add_user_message putting the message first
add_user_message_front(h, message) == <<Message("user", message)>> \o h

\* ChatHistory.add_user_message as the agent uses it
add_user_message(h, message) == Append(h, Message("user", message))

----------------------------------------------------------------------------
(* Planner configuration *)

DEFAULT_MAX_AUTO_INVOKE_ATTEMPTS == 5

\* FunctionChoiceBehavior(enable_kernel_functions, maximum_auto_invoke_attempts,
\* filters, type_)
FunctionChoiceBehavior(enable, attempts, filters, type_) ==
    [enable_kernel_functions |-> enable,
     maximum_auto_invoke_attempts |-> attempts,
     filters |-> filters,
     type_ |-> type_]

\* FunctionChoiceBehavior.Auto()
FunctionChoiceBehaviorAuto ==
    FunctionChoiceBehavior(TRUE, DEFAULT_MAX_AUTO_INVOKE_ATTEMPTS, None, Some("auto"))

\* AzureChatPromptExecutionSettings(): every sampling field unset
AzureChatPromptExecutionSettings ==
    [temperature |-> None, top_p |-> None, presence_penalty |-> None,
     frequency_penalty |-> None, max_tokens |-> None,
     number_of_responses |-> None, stop |-> None, stream |-> FALSE,
     user |-> None, function_call |-> None,
     function_choice_behavior |-> None]

\* _configure_planner_config leaving the function choice behavior unset
configure_planner_config_no_behavior == AzureChatPromptExecutionSettings

configure_planner_config ==
    [AzureChatPromptExecutionSettings EXCEPT
        !.function_choice_behavior = Some(FunctionChoiceBehaviorAuto)]

----------------------------------------------------------------------------
(* Exceptions and the record of the last call *)

Exception(type, detail) == [type |-> type, detail |-> detail]

\* What a public call left behind: its name and arguments, whether it
\* returned, raised or is suspended, what it returned or raised, the history
\* at its entry, the requests it sent to the completion provider and the
\* result or fault the provider answered with.
Call(op, args, kind, ret, exc, h0, dispatched) ==
    [op |-> op, args |-> args, kind |-> kind, ret |-> ret, exc |-> exc,
     h0 |-> h0, dispatched |-> dispatched, result |-> None, fault |-> None]

Returned(op, args, h0) == Call(op, args, "return", None, None, h0, <<>>)
Raised(op, args, e, h0) == Call(op, args, "raise", None, Some(e), h0, <<>>)

----------------------------------------------------------------------------
(* Skills manager and the kernel's plugins *)

\* The bundles under plugins_store: name -> the capabilities it exposes
SkillBundles ==
    [n \in {"retrieval", "rewriting", "evaluation", "empty"} |->
        CASE n = "retrieval"  -> {"classify_search_query", "lookup_icd10_code"}
          [] n = "rewriting"  -> {"generate_expanded_query"}
          [] n = "evaluation" -> {"evaluate_policies"}
          [] n = "empty"      -> {}]

RECURSIVE SkillsFirstError(_)
\* The error of the first name, in order, that cannot be loaded
SkillsFirstError(names) ==
    IF names = <<>> THEN None
    ELSE IF Head(names) \notin DOMAIN SkillBundles
         THEN Some(Exception("SkillNotFoundError", <<Head(names)>>))
    ELSE IF SkillBundles[Head(names)] = {}
         THEN Some(Exception("SkillInvalidError", <<Head(names)>>))
    ELSE SkillsFirstError(Tail(names))

\* Skills.load_skills(names) deactivating the names that are already active
SkillsLoadSkills_toggle(act, names) ==
    LET e == SkillsFirstError(names)
        S == {names[i] : i \in 1..Len(names)}
    IN IF e # None THEN [activated |-> act, exc |-> e]
       ELSE [activated |-> (act \ S) \cup (S \ act), exc |-> None]

\* Skills.load_skills(names): the activated set afterwards and the error raised
SkillsLoadSkills(act, names) ==
    LET e == SkillsFirstError(names) IN
    IF e # None THEN [activated |-> act, exc |-> e]
    ELSE [activated |-> act \cup {names[i] : i \in 1..Len(names)}, exc |-> None]

\* Skills.get_skill(name) answering for every bundle, loaded or not
SkillsGetSkill_unloaded(act, name) ==
    IF name \in DOMAIN SkillBundles
    THEN [directory |-> Some(name), capabilities |-> SkillBundles[name], exc |-> None]
    ELSE [directory |-> None, capabilities |-> {},
          exc |-> Some(Exception("SkillNotLoadedError", <<name>>))]

\* Skills.get_skill(name): the loaded plugin's directory and capabilities, or
\* the error raised
SkillsGetSkill(act, name) ==
    IF name \in act
    THEN [directory |-> Some(name), capabilities |-> SkillBundles[name], exc |-> None]
    ELSE [directory |-> None, capabilities |-> {},
          exc |-> Some(Exception("SkillNotLoadedError", <<name>>))]

RECURSIVE LoadSkillsLoop(_, _, _, _)
\* The for loop of ChatAgent.load_skills: each name is fetched from the skills
\* manager and added to the kernel; `bad` are the plugins kernel.add_plugin
\* fails on.
LoadSkillsLoop(names, act, plugs, bad) ==
    IF names = <<>> THEN [kernel_plugins |-> plugs, exc |-> None]
    ELSE LET plugin == SkillsGetSkill(act, Head(names)) IN
         IF plugin.exc # None THEN [kernel_plugins |-> plugs, exc |-> plugin.exc]
         ELSE IF Head(names) \in bad
              THEN [kernel_plugins |-> plugs,
                    exc |-> Some(Exception("PluginInitializationError", <<Head(names)>>))]
         ELSE LoadSkillsLoop(Tail(names), act, Append(plugs, plugin.directory[1]), bad)

RECURSIVE LoadSkillsEach(_, _, _, _)
\* A loop that loads each name into the skills manager right before adding it
\* to the kernel
LoadSkillsEach(names, act, plugs, bad) ==
    IF names = <<>> THEN [activated |-> act, kernel_plugins |-> plugs, exc |-> None]
    ELSE LET m == SkillsLoadSkills(act, <<Head(names)>>) IN
         IF m.exc # None
         THEN [activated |-> act, kernel_plugins |-> plugs, exc |-> m.exc]
         ELSE IF Head(names) \in bad
              THEN [activated |-> m.activated, kernel_plugins |-> plugs,
                    exc |-> Some(Exception("PluginInitializationError", <<Head(names)>>))]
         ELSE LoadSkillsEach(Tail(names), m.activated, Append(plugs, Head(names)), bad)

\* ChatAgent.load_skills loading the names one by one
load_skills_one_by_one(skills, act, plugs, bad) ==
    LoadSkillsEach(skills, act, plugs, bad)

\* ChatAgent.load_skills going on to the loop after the skills manager raised
load_skills_ignore_manager_error(skills, act, plugs, bad) ==
    LET m == SkillsLoadSkills(act, skills)
        k == LoadSkillsLoop(skills, m.activated, plugs, bad)
    IN [activated |-> m.activated, kernel_plugins |-> k.kernel_plugins,
        exc |-> k.exc]

\* ChatAgent.load_skills(skills): the state it leaves and the error it raises
load_skills(skills, act, plugs, bad) ==
    LET m == SkillsLoadSkills(act, skills) IN
    IF m.exc # None
    THEN [activated |-> m.activated, kernel_plugins |-> plugs, exc |-> m.exc]
    ELSE LET k == LoadSkillsLoop(skills, m.activated, plugs, bad) IN
         [activated |-> m.activated, kernel_plugins |-> k.kernel_plugins,
          exc |-> k.exc]

----------------------------------------------------------------------------
(* Construction *)

\* y or x
Or_second_first(x, y) == IF Truthy(y) THEN y ELSE x

\* x or y
Or(x, y) == IF Truthy(x) THEN x ELSE y

RequiredVars ==
    <<"AZURE_OPENAI_KEY", "AZURE_OPENAI_API_ENDPOINT", "AZURE_OPENAI_API_VERSION",
      "AZURE_AOAI_CHAT_MODEL_NAME_DEPLOYMENT_ID">>

\* The four settings as __init__ resolves them from its arguments and os.getenv
ResolvedVars(a, env) ==
    [v \in {RequiredVars[i] : i \in 1..Len(RequiredVars)} |->
        CASE v = "AZURE_OPENAI_KEY" -> Or(a.azure_openai_key, env[v])
          [] v = "AZURE_OPENAI_API_ENDPOINT" -> Or(a.azure_openai_endpoint, env[v])
          [] v = "AZURE_OPENAI_API_VERSION" -> Or(a.azure_openai_api_version, env[v])
          [] v = "AZURE_AOAI_CHAT_MODEL_NAME_DEPLOYMENT_ID" ->
                Or(a.azure_openai_chat_deployment_id, env[v])]

\* missing_vars holding the first missing name only
MissingVars_first_only(resolved) ==
    LET all == SelectSeq(RequiredVars, LAMBDA v : ~Truthy(resolved[v]))
    IN IF all = <<>> THEN <<>> ELSE <<all[1]>>

\* missing_vars: the names whose value is falsy, in the order of required_vars
MissingVars(resolved) ==
    SelectSeq(RequiredVars, LAMBDA v : ~Truthy(resolved[v]))

\* __init__ recording the instructions before the description
SeedHistory_instructions_first(description, instructions) ==
    LET h1 == IF Truthy(instructions)
              THEN add_user_message(ChatHistory, instructions[1])
              ELSE ChatHistory
    IN IF Truthy(description) THEN add_system_message(h1, description[1]) ELSE h1

\* The history __init__ seeds from description and instructions
SeedHistory(description, instructions) ==
    LET h1 == IF Truthy(description)
              THEN add_system_message(ChatHistory, description[1])
              ELSE ChatHistory
    IN IF Truthy(instructions) THEN add_user_message(h1, instructions[1]) ELSE h1

\* The add_*_message calls __init__ makes
SeedCalls(description, instructions) ==
    (IF Truthy(description) THEN <<Message("system", description[1])>> ELSE <<>>)
    \o (IF Truthy(instructions) THEN <<Message("user", instructions[1])>> ELSE <<>>)

\* The arguments of a call of __init__ together with the environment it read
InitCallArgs(a, env) == ("env" :> env) @@ a

\* ChatAgent.__init__(...) with arguments a, environment env, and `bad` the
\* plugins kernel.add_plugin fails on
ChatAgentInit(a, env, bad) ==
    /\ pc = "new"
    /\ LET h == SeedHistory(a.description, a.instructions)
           missing == MissingVars(ResolvedVars(a, env))
           config == IF a.planner_config # None THEN a.planner_config[1]
                     ELSE configure_planner_config
           behavior == IF a.planner_behavior # None THEN a.planner_behavior
                       ELSE config.function_choice_behavior
           doLoad == a.skills # None /\ a.skills[1] # <<>>
           ld == IF doLoad THEN load_skills(a.skills[1], activated, kernel_plugins, bad)
                 ELSE [activated |-> activated, kernel_plugins |-> kernel_plugins,
                       exc |-> None]
           args == InitCallArgs(a, env)
       IN /\ chat_history' = h
          /\ added' = SeedCalls(a.description, a.instructions)
          /\ azure_settings' = ResolvedVars(a, env)
          /\ UNCHANGED in_flight
          /\ IF missing # <<>>
             THEN /\ pc' = "failed"
                  /\ last' = Raised("__init__", args,
                                   Exception("ValueError", missing), <<>>)
                  /\ UNCHANGED <<planner_config, planner_behavior, activated,
                                 kernel_plugins>>
             ELSE /\ planner_config' = config
                  /\ planner_behavior' = behavior
                  /\ activated' = ld.activated
                  /\ kernel_plugins' = ld.kernel_plugins
                  /\ IF ld.exc # None
                     THEN /\ pc' = "failed"
                          /\ last' = Raised("__init__", args, ld.exc[1], <<>>)
                     ELSE /\ pc' = "idle"
                          /\ last' = Returned("__init__", args, <<>>)
          /\ default_kernel_arguments' = EmptyDict
          /\ default_kernel_settings' = None
          /\ chat_completion' = None

----------------------------------------------------------------------------
(* Configuration setters *)

\* The value of a parameter: the argument, or the default when it is left out
ArgOr(arg, default) == IF arg # None THEN arg[1] ELSE default

\* set_planner_execution_settings(...): o holds the call's arguments, None for
\* an argument left out (stream then is its default, False)
set_planner_execution_settings(config, o) ==
    [config EXCEPT
        !.temperature = IF o.temperature # None THEN o.temperature ELSE @,
        !.top_p = IF o.top_p # None THEN o.top_p ELSE @,
        !.presence_penalty = IF o.presence_penalty # None THEN o.presence_penalty ELSE @,
        !.frequency_penalty = IF o.frequency_penalty # None THEN o.frequency_penalty ELSE @,
        !.max_tokens = IF o.max_tokens # None THEN o.max_tokens ELSE @,
        !.number_of_responses =
            IF o.number_of_responses # None THEN o.number_of_responses ELSE @,
        !.stop = IF o.stop_sequences # None THEN o.stop_sequences ELSE @,
        !.user = IF o.user # None THEN o.user ELSE @,
        !.function_call = IF o.function_call # None THEN o.function_call ELSE @,
        !.stream = ArgOr(o.stream, FALSE)]

SetPlannerExecutionSettings(o) ==
    /\ pc = "idle"
    /\ planner_config' = set_planner_execution_settings(planner_config, o)
    /\ last' = Returned("set_planner_execution_settings", o, chat_history)
    /\ UNCHANGED <<pc, chat_history, planner_behavior, default_kernel_arguments,
                   default_kernel_settings, chat_completion, kernel_plugins,
                   activated, added, azure_settings, in_flight>>

\* set_planner_behavior keeping the filters in place when the call passes none
set_planner_behavior_keep_filters(config, b) ==
    [config EXCEPT !.function_choice_behavior =
        Some(FunctionChoiceBehavior(
                ArgOr(b.enable_kernel_functions, TRUE),
                ArgOr(b.max_auto_invoke_attempts, DEFAULT_MAX_AUTO_INVOKE_ATTEMPTS),
                IF b.filters = None /\ config.function_choice_behavior # None
                THEN config.function_choice_behavior[1].filters ELSE b.filters,
                b.behavior_type))]

\* set_planner_behavior(enable_kernel_functions, max_auto_invoke_attempts,
\* filters, behavior_type): b holds the call's arguments, None for an argument
\* left out (the defaults are True, 5, None and None)
set_planner_behavior(config, b) ==
    [config EXCEPT !.function_choice_behavior =
        Some(FunctionChoiceBehavior(
                ArgOr(b.enable_kernel_functions, TRUE),
                ArgOr(b.max_auto_invoke_attempts, DEFAULT_MAX_AUTO_INVOKE_ATTEMPTS),
                b.filters, b.behavior_type))]

SetPlannerBehavior(b) ==
    /\ pc = "idle"
    /\ planner_config' = set_planner_behavior(planner_config, b)
    /\ last' = Returned("set_planner_behavior", b, chat_history)
    /\ UNCHANGED <<pc, chat_history, planner_behavior, default_kernel_arguments,
                   default_kernel_settings, chat_completion, kernel_plugins,
                   activated, added, azure_settings, in_flight>>

\* configure_kernel_arguments(arguments, settings)
ConfigureKernelArguments(arguments, settings) ==
    /\ pc = "idle"
    /\ default_kernel_arguments' =
            IF arguments # None /\ DOMAIN arguments[1] # {} THEN arguments[1]
            ELSE EmptyDict
    /\ default_kernel_settings' = settings
    /\ last' = Returned("configure_kernel_arguments",
                        [arguments |-> arguments, settings |-> settings],
                        chat_history)
    /\ UNCHANGED <<pc, chat_history, planner_config, planner_behavior,
                   chat_completion, kernel_plugins, activated, added, azure_settings, in_flight>>

\* load_skills(skills)
LoadSkills(skills, bad) ==
    /\ pc = "idle"
    /\ Len(kernel_plugins) + Len(skills) <= MaxPlugins
    /\ LET r == load_skills(skills, activated, kernel_plugins, bad) IN
       /\ activated' = r.activated
       /\ kernel_plugins' = r.kernel_plugins
       /\ last' = IF r.exc # None
                  THEN Raised("load_skills", [skills |-> skills], r.exc[1], chat_history)
                  ELSE Returned("load_skills", [skills |-> skills], chat_history)
    /\ UNCHANGED <<pc, chat_history, planner_config, planner_behavior,
                   default_kernel_arguments, default_kernel_settings,
                   chat_completion, added, azure_settings, in_flight>>

\* Skills.get_skill(name) called on the agent's skills manager
GetSkill(name) ==
    /\ pc = "idle"
    /\ LET r == SkillsGetSkill(activated, name) IN
       last' = IF r.exc # None
               THEN Raised("get_skill", [name |-> name], r.exc[1], chat_history)
               ELSE [Returned("get_skill", [name |-> name], chat_history) EXCEPT
                        !.ret = Some([directory |-> r.directory[1],
                                      capabilities |-> r.capabilities])]
    /\ UNCHANGED <<pc, chat_history, planner_config, planner_behavior,
                   default_kernel_arguments, default_kernel_settings,
                   chat_completion, added, azure_settings, activated,
                   kernel_plugins, in_flight>>

----------------------------------------------------------------------------
(* Chat history operations *)

AddSystemMessage(message) ==
    /\ pc = "idle"
    /\ Len(chat_history) < MaxHist
    /\ chat_history' = add_system_message(chat_history, message)
    /\ added' = Append(added, Message("system", message))
    /\ last' = Returned("add_system_message", [message |-> message], chat_history)
    /\ UNCHANGED <<pc, planner_config, planner_behavior, default_kernel_arguments,
                   default_kernel_settings, chat_completion, kernel_plugins,
                   activated, azure_settings, in_flight>>

AddUserMessage(message) ==
    /\ pc = "idle"
    /\ Len(chat_history) < MaxHist
    /\ chat_history' = add_user_message(chat_history, message)
    /\ added' = Append(added, Message("user", message))
    /\ last' = Returned("add_user_message", [message |-> message], chat_history)
    /\ UNCHANGED <<pc, planner_config, planner_behavior, default_kernel_arguments,
                   default_kernel_settings, chat_completion, kernel_plugins,
                   activated, azure_settings, in_flight>>

\* clear_chat_history keeping the system messages
clear_chat_history_keep_system(h) == SelectSeq(h, LAMBDA m : m.role = "system")

\* clear_chat_history(): the history it leaves
clear_chat_history(h) == ChatHistory

\* clear_chat_history() putting the default planner configuration back
ClearChatHistory_resets_policy ==
    /\ pc = "idle"
    /\ chat_history' = clear_chat_history(chat_history)
    /\ added' = <<>>
    /\ last' = Returned("clear_chat_history", <<>>, chat_history)
    /\ planner_config' = configure_planner_config
    /\ UNCHANGED <<pc, planner_behavior, default_kernel_arguments,
                   default_kernel_settings, chat_completion, kernel_plugins,
                   activated, azure_settings, in_flight>>

ClearChatHistory ==
    /\ pc = "idle"
    /\ chat_history' = clear_chat_history(chat_history)
    /\ added' = <<>>
    /\ last' = Returned("clear_chat_history", <<>>, chat_history)
    /\ UNCHANGED <<pc, planner_config, planner_behavior, default_kernel_arguments,
                   default_kernel_settings, chat_completion, kernel_plugins,
                   activated, azure_settings, in_flight>>

----------------------------------------------------------------------------
(* run *)

\* run appending the user prompt before the system prompt
RunAppendPrompts_user_first(h, system_prompt, user_prompt) ==
    LET h1 == IF user_prompt # None THEN add_user_message(h, user_prompt[1]) ELSE h
    IN IF system_prompt # None THEN add_system_message(h1, system_prompt[1]) ELSE h1

\* The prompts run appends before anything else
RunAppendPrompts(h, system_prompt, user_prompt) ==
    LET h1 == IF system_prompt # None THEN add_system_message(h, system_prompt[1])
              ELSE h
    IN IF user_prompt # None THEN add_user_message(h1, user_prompt[1]) ELSE h1

\* The add_*_message calls run makes
RunCalls(system_prompt, user_prompt) ==
    (IF system_prompt # None THEN <<Message("system", system_prompt[1])>> ELSE <<>>)
    \o (IF user_prompt # None THEN <<Message("user", user_prompt[1])>> ELSE <<>>)

\* final_args with the defaults winning on a key of both
RunFinalArgs_defaults_win(defaults, run_arguments) ==
    IF run_arguments # None THEN DictUpdate(run_arguments[1], defaults) ELSE defaults

\* final_args: the defaults, updated with run_arguments when given
RunFinalArgs(defaults, run_arguments) ==
    IF run_arguments # None THEN DictUpdate(defaults, run_arguments[1]) ELSE defaults

\* final_settings: run_settings when given, else the default settings
RunFinalSettings(defaults, run_settings) ==
    IF run_settings # None THEN run_settings ELSE defaults

\* KernelArguments(settings=final_settings, **final_args) raises TypeError when
\* final_args has the key "settings" too
KernelArgumentsError(final_args) ==
    IF "settings" \in DOMAIN final_args
    THEN Some(Exception("TypeError", <<"settings">>))
    ELSE None

\* args_for_kernel: final_args with "input" set to user_prompt
RunArgsForKernel(final_args, user_prompt) ==
    DictSetItem(final_args, "input", user_prompt)

\* run binding another connection when it holds one already
GetService_new_connection(cc) ==
    IF cc = None \/ cc = Some("AzureChatCompletion (new)")
    THEN Some("AzureChatCompletion")
    ELSE Some("AzureChatCompletion (new)")

\* The service run binds when chat_completion is None
GetService(cc) == IF cc = None THEN Some("AzureChatCompletion") ELSE cc

\* What get_chat_message_contents is called with
Request(h, config, plugs, arguments, settings) ==
    [chat_history |-> h, settings |-> config, kernel |-> plugs,
     arguments |-> arguments, execution_settings |-> settings]

\* run calling get_chat_message_contents a second time
RunRequests_twice(req) == <<req, req>>

\* The requests one run sends: one call of get_chat_message_contents
RunRequests(req) == <<req>>

\* run returning the last candidate
RunResponse_last(result) == IF result # <<>> THEN result[Len(result)] ELSE ""

\* response = result[0] if result else ""
RunResponse(result) == IF result # <<>> THEN result[1] ELSE ""

\* run raising an error of its own that drops the cause
RunExcept_new_error(e) == Exception("RuntimeError", <<"run failed">>)

\* except Exception as e: log, raise. An exception that is no Exception (a
\* CancelledError) passes the handler by; either way the caller gets e itself.
RunExcept(e) == e

\* run(system_prompt, user_prompt, run_arguments, run_settings) up to its await
Run(system_prompt, user_prompt, run_arguments, run_settings) ==
    /\ pc = "idle"
    /\ Len(chat_history) + Len(RunCalls(system_prompt, user_prompt)) <= MaxHist
    /\ LET a == [system_prompt |-> system_prompt, user_prompt |-> user_prompt,
                 run_arguments |-> run_arguments, run_settings |-> run_settings]
           h1 == RunAppendPrompts(chat_history, system_prompt, user_prompt)
           final_args == RunFinalArgs(default_kernel_arguments, run_arguments)
           final_settings == RunFinalSettings(default_kernel_settings, run_settings)
           err == KernelArgumentsError(final_args)
           req == Request(h1, planner_config, kernel_plugins,
                          RunArgsForKernel(final_args, user_prompt), final_settings)
       IN /\ chat_history' = h1
          /\ added' = added \o RunCalls(system_prompt, user_prompt)
          /\ IF err # None
             THEN /\ pc' = "idle"
                  /\ last' = Raised("run", a, RunExcept(err[1]), chat_history)
                  /\ UNCHANGED <<chat_completion, in_flight>>
             ELSE /\ pc' = "awaiting"
                  /\ chat_history' = h1
                  /\ chat_completion' = GetService(chat_completion)
                  /\ in_flight' = Some([chat_history |-> h1, attached |-> TRUE])
                  /\ last' = Call("run", a, "await", None, None, chat_history,
                                  RunRequests(req))
    /\ UNCHANGED <<planner_config, planner_behavior, default_kernel_arguments,
                   default_kernel_settings, kernel_plugins, activated, azure_settings>>

\* run recording the response as an assistant message
RunHistoryOnReturn_append(h, response) == Append(h, Message("assistant", response))

\* The history run leaves when it returns response: as it is
RunHistoryOnReturn(h, response) == h

\* run restoring the history of its entry when it raises
RunHistoryOnRaise_rollback(h, h0) == h0

\* The history run leaves when it raises: as it is (h0 is the history at entry)
RunHistoryOnRaise(h, h0) == h

\* get_chat_message_contents returns result: run returns its response
ProviderReturn(result) ==
    /\ pc = "awaiting"
    /\ pc' = "idle"
    /\ last' = [last EXCEPT !.kind = "return", !.ret = Some(RunResponse(result)),
                            !.result = Some(result)]
    /\ chat_history' = RunHistoryOnReturn(chat_history, RunResponse(result))
    /\ in_flight' = None
    /\ UNCHANGED <<planner_config, planner_behavior,
                   default_kernel_arguments, default_kernel_settings,
                   chat_completion, kernel_plugins, activated, added, azure_settings>>

\* get_chat_message_contents raises e: run raises
ProviderRaise(e) ==
    /\ pc = "awaiting"
    /\ pc' = "idle"
    /\ last' = [last EXCEPT !.kind = "raise", !.exc = Some(RunExcept(e)),
                            !.fault = Some(e)]
    /\ chat_history' = RunHistoryOnRaise(chat_history, last.h0)
    /\ in_flight' = None
    /\ UNCHANGED <<planner_config, planner_behavior,
                   default_kernel_arguments, default_kernel_settings,
                   chat_completion, kernel_plugins, activated, added, azure_settings>>

----------------------------------------------------------------------------
(* AIPolicyEvaluationPlugin.evaluate_policies *)

\* The fallback with no retry asked for
EvaluatorFallback_no_retry ==
    [policies |-> <<>>, reasoning |-> <<"Error during evaluation">>, retry |-> FALSE]

\* The value evaluate_policies returns from its except clause
EvaluatorFallback ==
    [policies |-> <<>>, reasoning |-> <<"Error during evaluation">>, retry |-> TRUE]

\* The exception the try block of evaluate_policies raises, if any. e holds
\* what each step meets: whether __init__ set self.prompt_manager, the error
\* of get_prompt and of create_prompt_evaluator_user, and the error or the
\* response of generate_chat_response.
EvaluatorError(e) ==
    IF ~e.prompt_manager_set
    THEN Some(Exception("AttributeError", <<"prompt_manager">>))
    ELSE IF e.get_prompt # None THEN e.get_prompt
    ELSE IF e.create_prompt # None THEN e.create_prompt
    ELSE IF e.generate.exc # None THEN e.generate.exc
    ELSE IF e.generate.response = None
         THEN Some(Exception("TypeError", <<"'NoneType' object is not subscriptable">>))
    ELSE IF "response" \notin DOMAIN e.generate.response[1]
         THEN Some(Exception("KeyError", <<"response">>))
    ELSE None

\* evaluate_policies(query, search_results): what it returns
evaluate_policies(e) ==
    IF EvaluatorError(e) # None THEN EvaluatorFallback
    ELSE e.generate.response[1]["response"]

EvaluatePolicies(query, search_results, e) ==
    /\ last' = [Returned("evaluate_policies",
                         [query |-> query, search_results |-> search_results,
                          steps |-> e], <<>>)
                    EXCEPT !.ret = Some(evaluate_policies(e))]
    /\ UNCHANGED <<pc, chat_history, planner_config, planner_behavior,
                   default_kernel_arguments, default_kernel_settings,
                   chat_completion, kernel_plugins, activated, added,
                   azure_settings, in_flight>>

----------------------------------------------------------------------------
(* Calls made by another task while run is suspended in the provider call: *)
(* the record of the suspended run stays in `last`                          *)

\* The object the suspended call holds after self.chat_history has been
\* changed in place to h: it reads h when it is that object
InFlightAfter(h) ==
    IF in_flight[1].attached
    THEN Some([in_flight[1] EXCEPT !.chat_history = h])
    ELSE in_flight

AddSystemMessageDuringRun(message) ==
    /\ pc = "awaiting"
    /\ Len(chat_history) < MaxHist
    /\ chat_history' = add_system_message(chat_history, message)
    /\ in_flight' = InFlightAfter(add_system_message(chat_history, message))
    /\ added' = Append(added, Message("system", message))
    /\ UNCHANGED <<pc, last, planner_config, planner_behavior,
                   default_kernel_arguments, default_kernel_settings,
                   chat_completion, kernel_plugins, activated, azure_settings>>

AddUserMessageDuringRun(message) ==
    /\ pc = "awaiting"
    /\ Len(chat_history) < MaxHist
    /\ chat_history' = add_user_message(chat_history, message)
    /\ in_flight' = InFlightAfter(add_user_message(chat_history, message))
    /\ added' = Append(added, Message("user", message))
    /\ UNCHANGED <<pc, last, planner_config, planner_behavior,
                   default_kernel_arguments, default_kernel_settings,
                   chat_completion, kernel_plugins, activated, azure_settings>>

\* clear_chat_history() assigns a new ChatHistory to self.chat_history: the
\* suspended call keeps the object it was given
ClearChatHistoryDuringRun ==
    /\ pc = "awaiting"
    /\ chat_history' = clear_chat_history(chat_history)
    /\ in_flight' = Some([in_flight[1] EXCEPT !.attached = FALSE])
    /\ added' = <<>>
    /\ UNCHANGED <<pc, last, planner_config, planner_behavior,
                   default_kernel_arguments, default_kernel_settings,
                   chat_completion, kernel_plugins, activated, azure_settings>>

----------------------------------------------------------------------------
(* The specification: one agent, its calls made one at a time *)

PromptTexts == {"", "2+2?"}
OptPrompts == {None} \cup {Some(t) : t \in PromptTexts}

NoSampling ==
    [temperature |-> None, top_p |-> None, presence_penalty |-> None,
     frequency_penalty |-> None, max_tokens |-> None, number_of_responses |-> None,
     stop_sequences |-> None, stream |-> None, user |-> None,
     function_call |-> None]

NoEnv == [v \in {RequiredVars[i] : i \in 1..Len(RequiredVars)} |-> None]

InitArgs ==
    [description : {None, Some(""), Some("You are helpful")},
     instructions : {None, Some(""), Some("Be concise")},
     skills : {None},
     planner_config : {None},
     planner_behavior : {None},
     azure_openai_key : {None, Some("key")},
     azure_openai_endpoint : {Some("https://endpoint")},
     azure_openai_api_version : {Some("2024-06-01")},
     azure_openai_chat_deployment_id : {Some("gpt-4o")}]

DefaultArgs == ("x" :> Some("0")) @@ ("y" :> Some("2"))

DefaultSettings == [AzureChatPromptExecutionSettings EXCEPT !.max_tokens = Some(9)]
CallSettings == [AzureChatPromptExecutionSettings EXCEPT !.temperature = Some(1)]

ProviderResults == {<<>>, <<"4", "four">>}
ProviderFaults ==
    {Exception("ServiceResponseException", <<"provider">>),
     Exception("CancelledError", <<"timeout">>)}

Init ==
    /\ pc = "new"
    /\ chat_history = <<>>
    /\ planner_config = AzureChatPromptExecutionSettings
    /\ planner_behavior = None
    /\ default_kernel_arguments = EmptyDict
    /\ default_kernel_settings = None
    /\ chat_completion = None
    /\ azure_settings = NoEnv
    /\ kernel_plugins = <<>>
    /\ activated = {}
    /\ last = Returned("none", <<>>, <<>>)
    /\ added = <<>>
    /\ in_flight = None

Next ==
    \/ \E a \in InitArgs : ChatAgentInit(a, NoEnv, {})
    \/ \E m \in PromptTexts : AddSystemMessage(m)
    \/ \E m \in PromptTexts : AddUserMessage(m)
    \/ ClearChatHistory
    \/ SetPlannerExecutionSettings([NoSampling EXCEPT !.temperature = Some(1)])
    \/ SetPlannerBehavior([enable_kernel_functions |-> Some(TRUE),
                           max_auto_invoke_attempts |-> Some(3),
                           filters |-> None, behavior_type |-> Some("Required")])
    \/ ConfigureKernelArguments(Some(DefaultArgs), Some(DefaultSettings))
    \/ \E skills \in {<<"retrieval">>, <<"main">>} : LoadSkills(skills, {})
    \/ \E sp \in OptPrompts, up \in OptPrompts : Run(sp, up, None, None)
    \/ \E result \in ProviderResults : ProviderReturn(result)
    \/ \E e \in ProviderFaults : ProviderRaise(e)

Spec == Init /\ [][Next]_vars

----------------------------------------------------------------------------
(* The specification of run's arguments and settings: default and          *)
(* call-level dicts over the keys x, y, input and settings, with and        *)
(* without default and call-level settings                                  *)

ArgKeys == {"x", "y", "input", "settings"}
ArgDicts(V) == UNION {[K -> V] : K \in SUBSET ArgKeys}

AgentArgs ==
    [description |-> None, instructions |-> None, skills |-> None,
     planner_config |-> None, planner_behavior |-> None,
     azure_openai_key |-> Some("key"),
     azure_openai_endpoint |-> Some("https://endpoint"),
     azure_openai_api_version |-> Some("2024-06-01"),
     azure_openai_chat_deployment_id |-> Some("gpt-4o")]

NextArgs ==
    \/ ChatAgentInit(AgentArgs, NoEnv, {})
    \/ \E d \in {None} \cup {Some(x) : x \in ArgDicts({Some("0")}) \cup {DefaultArgs}},
          st \in {None, Some(DefaultSettings)} :
            ConfigureKernelArguments(d, st)
    \/ \E up \in {None, Some("2+2?")},
          ra \in {None} \cup {Some(x) : x \in ArgDicts({Some("1")})},
          rs \in {None, Some(CallSettings)} :
            Run(None, up, ra, rs)
    \/ ProviderReturn(<<"4">>)
    \/ \E e \in ProviderFaults : ProviderRaise(e)

SpecArgs == Init /\ [][NextArgs]_vars

----------------------------------------------------------------------------
(* The specification of the sampling settings: calls of                     *)
(* set_planner_execution_settings that pass no argument or one              *)

SamplingCalls ==
    {NoSampling,
     [NoSampling EXCEPT !.temperature = Some(1)],
     [NoSampling EXCEPT !.top_p = Some(1)],
     [NoSampling EXCEPT !.presence_penalty = Some(1)],
     [NoSampling EXCEPT !.frequency_penalty = Some(1)],
     [NoSampling EXCEPT !.max_tokens = Some(9)],
     [NoSampling EXCEPT !.number_of_responses = Some(2)],
     [NoSampling EXCEPT !.stop_sequences = Some(<<"END">>)],
     [NoSampling EXCEPT !.stream = Some(TRUE)],
     [NoSampling EXCEPT !.stream = Some(FALSE)],
     [NoSampling EXCEPT !.user = Some("u")],
     [NoSampling EXCEPT !.function_call = Some("auto")]}

NextSampling ==
    \/ ChatAgentInit(AgentArgs, NoEnv, {})
    \/ \E o \in SamplingCalls : SetPlannerExecutionSettings(o)

SpecSampling == Init /\ [][NextSampling]_vars

----------------------------------------------------------------------------
(* The specification of the function choice behavior: construction with and *)
(* without a planner_config and a planner_behavior, and calls of            *)
(* set_planner_behavior                                                     *)

ConsistentFilters ==
    ("included_plugins" :> {"retrieval"}) @@ ("excluded_functions" :> {"evaluate_policies"})
OverlappingFilters ==
    ("included_plugins" :> {"retrieval"}) @@ ("excluded_plugins" :> {"retrieval"})

\* A planner_config of the caller's that sets no function choice behavior
BareConfig == [AzureChatPromptExecutionSettings EXCEPT !.max_tokens = Some(9)]
\* A planner_config of the caller's with a function choice behavior
RequiredConfig ==
    [AzureChatPromptExecutionSettings EXCEPT
        !.function_choice_behavior =
            Some(FunctionChoiceBehavior(TRUE, 2, None, Some("required")))]
NoneInvokeBehavior == FunctionChoiceBehavior(TRUE, 0, None, Some("none"))

BehaviorInitArgs ==
    {[AgentArgs EXCEPT !.planner_config = c, !.planner_behavior = b] :
        c \in {None, Some(BareConfig), Some(RequiredConfig)},
        b \in {None, Some(NoneInvokeBehavior)}}

BehaviorCalls ==
    [enable_kernel_functions : {None, Some(FALSE)},
     max_auto_invoke_attempts : {None, Some(-1), Some(0)},
     filters : {None, Some(ConsistentFilters), Some(OverlappingFilters)},
     behavior_type : {None, Some("NoneInvoke")}]

NextBehavior ==
    \/ \E a \in BehaviorInitArgs : ChatAgentInit(a, NoEnv, {})
    \/ \E b \in BehaviorCalls : SetPlannerBehavior(b)
    \/ SetPlannerExecutionSettings([NoSampling EXCEPT !.temperature = Some(1)])

SpecBehavior == Init /\ [][NextBehavior]_vars

----------------------------------------------------------------------------
(* The specification of the configuration: construction with each of the   *)
(* four settings passed, passed empty or left out, and set, set empty or   *)
(* unset in the environment                                                 *)

SettingValues(v) == {None, Some(""), Some(v)}

ConfigArgs ==
    {[AgentArgs EXCEPT !.azure_openai_key = k, !.azure_openai_endpoint = e,
                       !.azure_openai_api_version = ver,
                       !.azure_openai_chat_deployment_id = dep] :
        k \in SettingValues("key"), e \in SettingValues("https://endpoint"),
        ver \in SettingValues("2024-06-01"), dep \in SettingValues("gpt-4o")}

Environments ==
    [{RequiredVars[i] : i \in 1..Len(RequiredVars)} -> SettingValues("env")]

NextConfig ==
    \E a \in ConfigArgs, env \in Environments : ChatAgentInit(a, env, {})

SpecConfig == Init /\ [][NextConfig]_vars

----------------------------------------------------------------------------
(* The specification of the skills: construction with and without skills,  *)
(* and calls of load_skills with names repeated within and across calls     *)

SkillNames == {"retrieval", "rewriting", "evaluation", "empty", "main"}

SkillLists ==
    {<<n>> : n \in SkillNames} \cup {<<n1, n2>> : n1, n2 \in SkillNames}

NextSkills ==
    \/ \E sk \in {None, Some(<<"retrieval">>)}, bad \in {{}, {"retrieval"}} :
            ChatAgentInit([AgentArgs EXCEPT !.skills = sk], NoEnv, bad)
    \/ \E sk \in SkillLists, bad \in {{}, {"rewriting"}} : LoadSkills(sk, bad)
    \/ \E n \in SkillNames : GetSkill(n)

SpecSkills == Init /\ [][NextSkills]_vars

----------------------------------------------------------------------------
(* The specification of an agent shared by two tasks: one runs, the other  *)
(* changes the history while the run is suspended                           *)

NextConcurrent ==
    \/ ChatAgentInit(AgentArgs, NoEnv, {})
    \/ AddUserMessage("2+2?")
    \/ \E up \in {None, Some("2+2?")} : Run(None, up, None, None)
    \/ ProviderReturn(<<"4">>)
    \/ \E e \in ProviderFaults : ProviderRaise(e)
    \/ AddSystemMessageDuringRun("Be concise")
    \/ AddUserMessageDuringRun("and 3+3?")
    \/ ClearChatHistoryDuringRun

SpecConcurrent == Init /\ [][NextConcurrent]_vars

----------------------------------------------------------------------------
(* The specification of the policy evaluation: evaluate_policies called    *)
(* with every outcome of its steps                                          *)

EvaluatorReplies ==
    {[policies |-> <<"policies/epidiolex.pdf">>, reasoning |-> <<"covers dosage">>,
      retry |-> FALSE],
     [policies |-> <<>>, reasoning |-> <<"insufficient">>, retry |-> TRUE],
     [policies |-> <<"policies/a.pdf", "policies/b.pdf">>, reasoning |-> <<>>,
      retry |-> TRUE]}

\* What generate_chat_response does: raises, returns None, returns a
\* dictionary without the key "response", or returns one with a reply
GenerateOutcomes ==
    {[exc |-> Some(Exception("ServiceResponseException", <<"503">>)), response |-> None],
     [exc |-> None, response |-> None],
     [exc |-> None, response |-> Some("conversation_history" :> <<>>)]}
    \cup {[exc |-> None,
           response |-> Some(("response" :> r) @@ ("conversation_history" :> <<>>))] :
            r \in EvaluatorReplies}

PromptOutcomes == {None, Some(Exception("ValueError", <<"Error rendering template">>))}

EvaluatorSteps ==
    [prompt_manager_set : BOOLEAN, get_prompt : PromptOutcomes,
     create_prompt : PromptOutcomes, generate : GenerateOutcomes]

NextEvaluator ==
    \E query \in {"", "prior authorization for Epidiolex?"},
       search_results \in {<<>>, <<"policies/epidiolex.pdf">>},
       e \in EvaluatorSteps :
        EvaluatePolicies(query, search_results, e)

SpecEvaluator == Init /\ [][NextEvaluator]_vars

----------------------------------------------------------------------------
(* Properties *)

\* The prompts of the last call of run, as the messages they are added as
LastPrompts ==
    (IF last.args.system_prompt # None
     THEN <<[role |-> "system", content |-> last.args.system_prompt[1]]>> ELSE <<>>)
    \o (IF last.args.user_prompt # None
        THEN <<[role |-> "user", content |-> last.args.user_prompt[1]]>> ELSE <<>>)

RunDone == last.op = "run" /\ last.kind \in {"return", "raise"}

\* C1: the chat history holds exactly the messages the add_system_message and
\* add_user_message calls added since the history was created, each with the
\* role of its call, in call order: none dropped, duplicated or reordered.
C1_HistoryIsCallLog == chat_history = added

C1_Witness ==
    /\ last.op = "add_user_message"
    /\ chat_history = <<[role |-> "system", content |-> "2+2?"],
                        [role |-> "user", content |-> ""],
                        [role |-> "user", content |-> "2+2?"]>>

\* C2: every step of a call other than clear_chat_history leaves a history
\* that the history before it is a prefix of, and every clear_chat_history
\* leaves the empty history.
C2_GrowsExceptOnReset ==
    [][IF last'.op = "clear_chat_history"
       THEN chat_history' = <<>>
       ELSE IsPrefix(chat_history, chat_history')]_vars

C2_Witness ==
    /\ last.op = "clear_chat_history"
    /\ Len(last.h0) >= 3
    /\ chat_history = <<>>

\* C3 as stated: after a successful construction the history is the
\* description as a system message if one was supplied (not None), then the
\* instructions as a user message if supplied, and nothing else.
C3_SeededWhenSupplied ==
    (last.op = "__init__" /\ last.kind = "return") =>
        chat_history =
            (IF last.args.description # None
             THEN <<[role |-> "system", content |-> last.args.description[1]]>>
             ELSE <<>>)
            \o (IF last.args.instructions # None
                THEN <<[role |-> "user", content |-> last.args.instructions[1]]>>
                ELSE <<>>)

\* C3 amended: after a successful construction the history is the description
\* as a system message if a non-empty description was supplied, then the
\* instructions as a user message if non-empty instructions were supplied,
\* and nothing else.
C3_SeededWhenNonEmpty ==
    (last.op = "__init__" /\ last.kind = "return") =>
        chat_history =
            (IF last.args.description \notin {None, Some("")}
             THEN <<[role |-> "system", content |-> last.args.description[1]]>>
             ELSE <<>>)
            \o (IF last.args.instructions \notin {None, Some("")}
                THEN <<[role |-> "user", content |-> last.args.instructions[1]]>>
                ELSE <<>>)

C3_Witness ==
    /\ last.op = "__init__" /\ last.kind = "return"
    /\ last.args.description = Some("You are helpful")
    /\ last.args.instructions = Some("Be concise")
    /\ chat_history = <<[role |-> "system", content |-> "You are helpful"],
                        [role |-> "user", content |-> "Be concise"]>>

\* C4: every request run sends to the provider carries the history at run's
\* entry followed by the system prompt, if given, and then the user prompt, if
\* given; a prompt not given adds nothing.
C4_PromptsBeforeDispatch ==
    last.op = "run" =>
        \A i \in 1..Len(last.dispatched) :
            last.dispatched[i].chat_history = last.h0 \o LastPrompts

C4_Witness ==
    /\ last.op = "run" /\ last.kind = "await"
    /\ last.h0 # <<>>
    /\ last.args.system_prompt = Some("2+2?")
    /\ last.args.user_prompt = Some("")
    /\ Len(last.dispatched) = 1

\* C5: when the provider returns a list, run returns (does not raise): the
\* list's first element, or the empty string for the empty list.
C5_ReturnsFirstOrEmpty ==
    (last.op = "run" /\ last.result # None) =>
        /\ last.kind = "return"
        /\ last.exc = None
        /\ last.ret = Some(IF last.result[1] = <<>> THEN "" ELSE Head(last.result[1]))

C5_Witness ==
    /\ last.op = "run" /\ last.kind = "return"
    /\ last.result = Some(<<>>)
    /\ last.ret = Some("")

\* C6: when run has returned or raised, the history is the history at its
\* entry followed by the prompts it appended.
C6_NoRollback ==
    RunDone =>
        /\ IsPrefix(last.h0, chat_history)
        /\ SubSeq(chat_history, Len(last.h0) + 1, Len(chat_history)) = LastPrompts

C6_Witness ==
    /\ last.op = "run" /\ last.kind = "raise"
    /\ last.fault # None
    /\ last.h0 # <<>>
    /\ last.args.system_prompt # None /\ last.args.user_prompt # None

\* C7: when run has returned, the history has the messages it had at entry
\* and the prompts of the call and no more, and none of them is an assistant
\* message.
C7_OutputNotAppended ==
    (last.op = "run" /\ last.kind = "return") =>
        /\ Len(chat_history) = Len(last.h0) + Len(LastPrompts)
        /\ \A i \in 1..Len(chat_history) : chat_history[i].role # "assistant"
        /\ \A i \in 1..Len(last.h0) : chat_history[i] = last.h0[i]

C7_Witness ==
    /\ last.op = "run" /\ last.kind = "return"
    /\ last.args.system_prompt = None
    /\ last.args.user_prompt = Some("2+2?")
    /\ last.ret = Some("4")
    /\ chat_history = <<[role |-> "system", content |-> "You are helpful"],
                        [role |-> "user", content |-> "Be concise"],
                        [role |-> "user", content |-> "2+2?"]>>

C9_NoRetries == last.op = "run" => Len(last.dispatched) <= 1

C9_Witness ==
    /\ last.op = "run" /\ last.kind = "raise"
    /\ last.fault # None
    /\ Len(last.dispatched) = 1

\* The default arguments {"x":0,"y":2} and the call arguments {"x":1}
C10_Example ==
    /\ last.op = "run" /\ last.dispatched # <<>>
    /\ DOMAIN default_kernel_arguments = {"x", "y"}
    /\ default_kernel_arguments["x"] = Some("0")
    /\ default_kernel_arguments["y"] = Some("2")
    /\ last.args.run_arguments # None
    /\ DOMAIN last.args.run_arguments[1] = {"x"}
    /\ last.args.run_arguments[1]["x"] = Some("1")

\* C10 as stated: the arguments of a request are the default arguments and
\* the call's arguments together, the call's value on a key of both, and no
\* other key.
C10_ArgsAreUnion ==
    last.op = "run" =>
        \A i \in 1..Len(last.dispatched) :
            LET args == last.dispatched[i].arguments
                d == default_kernel_arguments
                c == IF last.args.run_arguments # None
                     THEN last.args.run_arguments[1] ELSE <<>>
            IN /\ DOMAIN args = (DOMAIN d) \cup (DOMAIN c)
               /\ \A k \in DOMAIN args :
                    args[k] = IF k \in DOMAIN c THEN c[k] ELSE d[k]

\* C10 amended: the arguments of a request are the default arguments and the
\* call's arguments together, the call's value on a key of both, with the key
\* "input" set to the call's user_prompt (None when none is given) whatever
\* either had under it, and no other key.
C10_ArgsAreUnionWithInput ==
    last.op = "run" =>
        \A i \in 1..Len(last.dispatched) :
            LET args == last.dispatched[i].arguments
                d == default_kernel_arguments
                c == IF last.args.run_arguments # None
                     THEN last.args.run_arguments[1] ELSE <<>>
            IN /\ DOMAIN args = (DOMAIN d) \cup (DOMAIN c) \cup {"input"}
               /\ \A k \in DOMAIN args :
                    args[k] = IF k = "input" THEN last.args.user_prompt
                              ELSE IF k \in DOMAIN c THEN c[k] ELSE d[k]

C10_Witness ==
    /\ C10_Example
    /\ last.args.user_prompt = Some("2+2?")
    /\ DOMAIN last.dispatched[1].arguments = {"x", "y", "input"}
    /\ last.dispatched[1].arguments["x"] = Some("1")
    /\ last.dispatched[1].arguments["y"] = Some("2")
    /\ last.dispatched[1].arguments["input"] = Some("2+2?")

\* C11: the settings of every request run sends are the resolved settings:
\* run_settings when the call gives them, else the default settings of
\* configure_kernel_arguments (when either exists).
C11_DispatchesResolvedSettings ==
    last.op = "run" =>
        \A i \in 1..Len(last.dispatched) :
            LET resolved == IF last.args.run_settings # None
                            THEN last.args.run_settings
                            ELSE default_kernel_settings
            IN resolved # None => Some(last.dispatched[i].settings) = resolved

\* C12: a call of set_planner_execution_settings leaves every sampling field
\* whose argument it does not pass at the value the field had before the call.
C12_KeepsUnpassedFields ==
    [][last'.op = "set_planner_execution_settings" =>
        LET o == last'.args
            old == planner_config
            new == planner_config'
        IN /\ o.temperature = None => new.temperature = old.temperature
           /\ o.top_p = None => new.top_p = old.top_p
           /\ o.presence_penalty = None => new.presence_penalty = old.presence_penalty
           /\ o.frequency_penalty = None =>
                new.frequency_penalty = old.frequency_penalty
           /\ o.max_tokens = None => new.max_tokens = old.max_tokens
           /\ o.number_of_responses = None =>
                new.number_of_responses = old.number_of_responses
           /\ o.stop_sequences = None => new.stop = old.stop
           /\ o.stream = None => new.stream = old.stream
           /\ o.user = None => new.user = old.user
           /\ o.function_call = None => new.function_call = old.function_call]_vars

\* C13: a call of set_planner_behavior with a negative
\* max_auto_invoke_attempts raises and leaves the planner configuration as it
\* was.
C13_RejectsNegativeAttempts ==
    [][(/\ last'.op = "set_planner_behavior"
        /\ last'.args.max_auto_invoke_attempts # None
        /\ last'.args.max_auto_invoke_attempts[1] < 0) =>
            /\ last'.kind = "raise"
            /\ planner_config' = planner_config]_vars

\* No name is both included and excluded in the same dimension of filters f
FiltersConsistent(f) ==
    \A dim \in {"plugins", "functions"} :
        LET inc == IF ("included_" \o dim) \in DOMAIN f THEN f["included_" \o dim] ELSE {}
            exc == IF ("excluded_" \o dim) \in DOMAIN f THEN f["excluded_" \o dim] ELSE {}
        IN inc \cap exc = {}

\* C14: in every state of a constructed agent the filters of its function
\* choice behavior name nothing as both included and excluded.
C14_FiltersConsistent ==
    (pc = "idle" /\ planner_config.function_choice_behavior # None
        /\ planner_config.function_choice_behavior[1].filters # None) =>
            FiltersConsistent(planner_config.function_choice_behavior[1].filters[1])

\* C15: a call of set_planner_behavior that returns leaves a function choice
\* behavior whose four fields are the call's arguments, or the parameter's
\* default (True, 5, None, None) for an argument left out, and leaves the
\* sampling fields as they were.
C15_ReplacesWholesale ==
    [][(last'.op = "set_planner_behavior" /\ last'.kind = "return") =>
        LET b == last'.args IN
        planner_config' =
            [planner_config EXCEPT !.function_choice_behavior =
                Some([enable_kernel_functions |->
                        IF b.enable_kernel_functions = None THEN TRUE
                        ELSE b.enable_kernel_functions[1],
                      maximum_auto_invoke_attempts |->
                        IF b.max_auto_invoke_attempts = None THEN 5
                        ELSE b.max_auto_invoke_attempts[1],
                      filters |-> b.filters,
                      type_ |-> b.behavior_type])]]_vars

C15_Witness ==
    /\ last.op = "set_planner_behavior" /\ last.kind = "return"
    /\ last.args.filters = None
    /\ last.args.max_auto_invoke_attempts = None
    /\ last.args.behavior_type = Some("NoneInvoke")
    /\ planner_config.temperature = Some(1)
    /\ planner_config.function_choice_behavior[1].filters = None
    /\ planner_config.function_choice_behavior[1].maximum_auto_invoke_attempts = 5

C16_PolicyKept ==
    [][last'.op \in {"run", "add_system_message", "add_user_message",
                     "clear_chat_history", "configure_kernel_arguments",
                     "load_skills"} =>
            /\ planner_config' = planner_config
            /\ planner_behavior' = planner_behavior]_vars

C16_Witness ==
    /\ last.op = "run" /\ last.kind = "raise"
    /\ planner_config.temperature = Some(1)
    /\ planner_config.function_choice_behavior # None
    /\ planner_config.function_choice_behavior[1].type_ = Some("Required")
    /\ Len(kernel_plugins) > 0

\* The argument of the call of __init__ recorded in c for the setting v
ExplicitArg(c, v) ==
    CASE v = "AZURE_OPENAI_KEY" -> c.azure_openai_key
      [] v = "AZURE_OPENAI_API_ENDPOINT" -> c.azure_openai_endpoint
      [] v = "AZURE_OPENAI_API_VERSION" -> c.azure_openai_api_version
      [] v = "AZURE_AOAI_CHAT_MODEL_NAME_DEPLOYMENT_ID" ->
            c.azure_openai_chat_deployment_id

SettingNames ==
    {"AZURE_OPENAI_KEY", "AZURE_OPENAI_API_ENDPOINT", "AZURE_OPENAI_API_VERSION",
     "AZURE_AOAI_CHAT_MODEL_NAME_DEPLOYMENT_ID"}

\* The settings that neither the call recorded in c nor its environment gave
\* a non-empty value
Unresolved(c) ==
    {v \in SettingNames :
        /\ ExplicitArg(c, v) \in {None, Some("")}
        /\ c.env[v] \in {None, Some("")}}

\* C18: construction raises its configuration error (the ValueError of
\* __init__) if and only if one of the four settings is unset or empty after
\* resolution, and the error names every such setting once and no other.
C18_RaisesIffMissing ==
    last.op = "__init__" =>
        LET miss == Unresolved(last.args)
            raised == last.kind = "raise" /\ last.exc[1].type = "ValueError"
        IN /\ raised <=> miss # {}
           /\ raised =>
                /\ {last.exc[1].detail[i] : i \in 1..Len(last.exc[1].detail)} = miss
                /\ Len(last.exc[1].detail) = Cardinality(miss)
           /\ ~raised => last.kind = "return"

C18_Witness ==
    /\ last.op = "__init__" /\ last.kind = "raise"
    /\ pc = "failed"
    /\ Len(last.exc[1].detail) = 2
    /\ last.args.azure_openai_key = Some("")
    /\ last.args.env["AZURE_OPENAI_KEY"] = None
    /\ last.args.azure_openai_endpoint = Some("https://endpoint")

\* C19 (as stated): each setting resolves to the argument of __init__ when
\* one is passed, and to the environment's value only when none is passed.
C19_ExplicitWins ==
    last.op = "__init__" =>
        \A v \in SettingNames :
            azure_settings[v] =
                IF ExplicitArg(last.args, v) # None THEN ExplicitArg(last.args, v)
                ELSE last.args.env[v]

\* C19 (amended): each setting resolves to the argument of __init__ when a
\* non-empty one is passed, and to the environment's value when none or an
\* empty one is passed.
C19_NonEmptyExplicitWins ==
    last.op = "__init__" =>
        \A v \in SettingNames :
            azure_settings[v] =
                IF ExplicitArg(last.args, v) \notin {None, Some("")}
                THEN ExplicitArg(last.args, v)
                ELSE last.args.env[v]

C19_Witness ==
    /\ last.op = "__init__" /\ last.kind = "return"
    /\ last.args.azure_openai_key = Some("key")
    /\ last.args.env["AZURE_OPENAI_KEY"] = Some("env")
    /\ azure_settings["AZURE_OPENAI_KEY"] = Some("key")
    /\ last.args.azure_openai_endpoint = None
    /\ azure_settings["AZURE_OPENAI_API_ENDPOINT"] = Some("env")

\* The names the kernel holds a plugin under: the kernel keeps its plugins by
\* name, so a plugin added again under a name stands in place of the earlier
KernelPluginNames(log) == {log[i] : i \in 1..Len(log)}

Listed(c) == {c.args.skills[i] : i \in 1..Len(c.args.skills)}

\* C21: a call of load_skills that lists a name without a bundle raises
\* SkillNotFoundError (SkillInvalidError when it also lists a bundle without
\* capabilities) and leaves the activated set and the kernel's plugins as
\* they were, wherever the name stands in the list.
C21_UnknownNameFails ==
    [][(last'.op = "load_skills" /\ Listed(last') \ DOMAIN SkillBundles # {}) =>
        /\ last'.kind = "raise"
        /\ last'.exc[1].type \in {"SkillNotFoundError", "SkillInvalidError"}
        /\ (\A n \in Listed(last') \cap DOMAIN SkillBundles : SkillBundles[n] # {}) =>
                last'.exc[1].type = "SkillNotFoundError"
        /\ activated' = activated
        /\ kernel_plugins' = kernel_plugins]_vars

C21_Witness ==
    /\ last.op = "load_skills" /\ last.kind = "raise"
    /\ last.exc[1].type = "SkillNotFoundError"
    /\ last.args.skills = <<"retrieval", "main">>
    /\ activated = {"rewriting"}

\* C22: a call of load_skills that lists a bundle without capabilities
\* raises SkillInvalidError (SkillNotFoundError when it also lists a name
\* without a bundle) and leaves the activated set as it was; every activated
\* skill has a bundle with at least one capability.
C22_ActiveHasCapabilities ==
    [][/\ \A n \in activated' : n \in DOMAIN SkillBundles /\ SkillBundles[n] # {}
       /\ (/\ last'.op = "load_skills"
           /\ \E n \in Listed(last') \cap DOMAIN SkillBundles : SkillBundles[n] = {}) =>
                /\ last'.kind = "raise"
                /\ last'.exc[1].type \in {"SkillNotFoundError", "SkillInvalidError"}
                /\ Listed(last') \subseteq DOMAIN SkillBundles =>
                        last'.exc[1].type = "SkillInvalidError"
                /\ activated' = activated]_vars

C22_Witness ==
    /\ last.op = "load_skills" /\ last.kind = "raise"
    /\ last.exc[1].type = "SkillInvalidError"
    /\ last.args.skills = <<"retrieval", "empty">>
    /\ activated = {}

\* C23: get_skill(name) returns the bundle's location and capabilities if
\* and only if name is activated, raises SkillNotLoadedError otherwise, and
\* changes neither the activated set nor the kernel's plugins.
C23_GetIffActive ==
    [][last'.op = "get_skill" =>
        LET n == last'.args.name IN
        /\ last'.kind = "return" <=> n \in activated
        /\ last'.kind = "return" =>
                last'.ret = Some([directory |-> n, capabilities |-> SkillBundles[n]])
        /\ last'.kind # "return" =>
                last'.kind = "raise" /\ last'.exc[1].type = "SkillNotLoadedError"
        /\ activated' = activated
        /\ kernel_plugins' = kernel_plugins]_vars

C23_Witness ==
    /\ last.op = "get_skill" /\ last.kind = "raise"
    /\ last.args.name = "rewriting"
    /\ activated = {"retrieval"}

\* C24: a call of load_skills adds no plugin to the kernel for a name that
\* was activated before the call, and no name is added twice.
C24_BindsNewlyActiveOnly ==
    [][last'.op = "load_skills" =>
        /\ \A n \in activated :
              Cardinality({i \in 1..Len(kernel_plugins') : kernel_plugins'[i] = n}) =
              Cardinality({i \in 1..Len(kernel_plugins) : kernel_plugins[i] = n})
        /\ \A n \in activated' :
              Cardinality({i \in 1..Len(kernel_plugins') : kernel_plugins'[i] = n}) <= 1]_vars

\* C30: after every call of load_skills, returned or raised, the activated
\* skills are the skills added to the kernel.
C30_ActiveIsBound ==
    last.op = "load_skills" => activated = KernelPluginNames(kernel_plugins)

\* C25: once bound, the connection to the completion provider stays the one
\* it is; only a run that dispatches binds it, and every run that dispatches
\* holds a connection.
C25_BoundOnce ==
    [][/\ chat_completion # None => chat_completion' = chat_completion
       /\ chat_completion' # chat_completion =>
            last'.op = "run" /\ last'.dispatched # <<>>
       /\ (last'.op = "run" /\ last'.dispatched # <<>>) =>
            chat_completion' # None]_vars

C25_Witness ==
    /\ last.op = "run" /\ last.kind = "return"
    /\ chat_completion = Some("AzureChatCompletion")
    /\ Len(last.h0) > 0
    /\ planner_config.function_choice_behavior[1].type_ = Some("Required")

\* C26: while a run is suspended in the provider call, the message sequence
\* the call reads from the history it was given is the sequence the history
\* had at dispatch.
C26_SnapshotAtDispatch ==
    pc = "awaiting" =>
        in_flight[1].chat_history = last.dispatched[1].chat_history

\* C28: when a step of evaluate_policies fails (the prompts, the model call,
\* reading the reply) it returns the value with no policies and retry true;
\* it returns a value with policies or with retry false only when the model
\* call returned a response.
C28_FallbackIsRetry ==
    last.op = "evaluate_policies" =>
        LET e == last.args.steps
            failed == \/ ~e.prompt_manager_set
                      \/ e.get_prompt # None
                      \/ e.create_prompt # None
                      \/ e.generate.exc # None
                      \/ e.generate.response = None
                      \/ "response" \notin DOMAIN e.generate.response[1]
        IN /\ last.kind = "return"
           /\ failed => last.ret[1].policies = <<>> /\ last.ret[1].retry = TRUE
           /\ (last.ret[1].policies # <<>> \/ last.ret[1].retry = FALSE) =>
                /\ e.generate.exc = None
                /\ e.generate.response # None
                /\ last.ret[1] = e.generate.response[1]["response"]

C28_Witness ==
    /\ last.op = "evaluate_policies"
    /\ last.args.steps.prompt_manager_set
    /\ last.args.steps.get_prompt = None
    /\ last.args.steps.create_prompt = None
    /\ last.args.steps.generate.exc # None
    /\ last.ret[1].retry = TRUE
    /\ last.ret[1].policies = <<>>

\* C29: in every state of a constructed agent, planner_behavior is the
\* function choice behavior of planner_config, the one run dispatches.
C29_BehaviorIsDispatched ==
    pc \in {"idle", "awaiting"} =>
        /\ planner_behavior = planner_config.function_choice_behavior
        /\ \A i \in 1..Len(last.dispatched) :
              last.op = "run" =>
                planner_behavior = last.dispatched[i].settings.function_choice_behavior

====
